---------------------------- MODULE Spec2Model ----------------------------
(***************************************************************************)
(* A model of the tweetdrop scraper (src/src/app.ts): the Scraper class    *)
(* collects the tweets of a conversation page by page, extracts addresses  *)
(* and ENS names with two regular expressions, optionally resolves the     *)
(* names through an RPC provider, and appends "address, amount" lines to   *)
(* batch files of 100 addresses.                                           *)
(*                                                                         *)
(* Strings are sequences of one-character strings, so that substring,      *)
(* toLowerCase, includes and the regular expressions are computed.         *)
(***************************************************************************)
EXTENDS Integers, Sequences, FiniteSets, TLC

(***************************************************************************)
(* Characters and the string methods the code uses                         *)
(***************************************************************************)
LowerLetters ==
    <<"a", "b", "c", "d", "e", "f", "g", "h", "i", "j", "k", "l", "m",
      "n", "o", "p", "q", "r", "s", "t", "u", "v", "w", "x", "y", "z">>

UpperLetters ==
    <<"A", "B", "C", "D", "E", "F", "G", "H", "I", "J", "K", "L", "M",
      "N", "O", "P", "Q", "R", "S", "T", "U", "V", "W", "X", "Y", "Z">>

DecimalDigits == <<"0", "1", "2", "3", "4", "5", "6", "7", "8", "9">>

Range(f) == {f[k] : k \in DOMAIN f}

Min(a, b) == IF a <= b THEN a ELSE b

AlnumChars == Range(LowerLetters) \cup Range(UpperLetters) \cup Range(DecimalDigits)

UpperChars == Range(UpperLetters)

\* [a-zA-Z0-9]
IsAlnum(c) == c \in AlnumChars

\* \w
IsWord(c) == IsAlnum(c) \/ c = "_"

\* . (no s flag): any character but a line terminator
DotMatches(c) == c \notin {"\n", "\r"}

\* String.prototype.toLowerCase, one character
LowerChar(c) ==
    IF c \in UpperChars
    THEN LowerLetters[CHOOSE k \in DOMAIN UpperLetters : UpperLetters[k] = c]
    ELSE c

\* String.prototype.toLowerCase
ToLowerCase(s) == [k \in 1..Len(s) |-> LowerChar(s[k])]

\* String.prototype.startsWith
StartsWith(s, pre) == Len(s) >= Len(pre) /\ SubSeq(s, 1, Len(pre)) = pre

\* String.prototype.includes
Includes(s, sub) ==
    \E p \in 1..(Len(s) - Len(sub) + 1) : SubSeq(s, p, p + Len(sub) - 1) = sub

\* String.prototype.substring(0, n)
Substring0(s, n) == SubSeq(s, 1, Min(n, Len(s)))

\* the decimal digits of a non-negative integer, as a template literal prints it
RECURSIVE NumberToString(_)
NumberToString(n) ==
    IF n < 10 THEN <<DecimalDigits[n + 1]>>
    ELSE NumberToString(n \div 10) \o <<DecimalDigits[(n % 10) + 1]>>

\* tweet.text.replace(/(\r\n|\n|\r)/gm, "")
RemoveLineBreaks(text) == SelectSeq(text, LAMBDA c : c \notin {"\r", "\n"})

(***************************************************************************)
(* The two regular expressions, matched as String.prototype.match does for *)
(* a regex without the g flag: the leftmost start, greedy quantifiers with *)
(* backtracking.  A match is the matched text; NoMatch stands for null.    *)
(***************************************************************************)
NoMatch == <<>>

\* the index of the last character of the maximal run of \w from q on (q-1: none)
RECURSIVE WordRunEnd(_, _)
WordRunEnd(s, q) ==
    IF q <= Len(s) /\ IsWord(s[q]) THEN WordRunEnd(s, q + 1) ELSE q - 1

\* addressRegex = /(0x[a-zA-Z0-9])\w+/ tried at position p: the end of the match, 0 if none
AddressRegexAt(s, p) ==
    IF /\ p + 3 <= Len(s)
       /\ s[p] = "0"
       /\ s[p + 1] = "x"
       /\ IsAlnum(s[p + 2])
       /\ IsWord(s[p + 3])
    THEN WordRunEnd(s, p + 3)
    ELSE 0

RECURSIVE AddressScan(_, _)
AddressScan(s, p) ==
    IF p > Len(s) THEN NoMatch
    ELSE IF AddressRegexAt(s, p) # 0 THEN SubSeq(s, p, AddressRegexAt(s, p))
    ELSE AddressScan(s, p + 1)

\* cleanedText.match(addressRegex)[0], or NoMatch
MatchAddress(s) == AddressScan(s, 1)

ENSSuffixes == {<<"e", "t", "h">>, <<"E", "T", "H">>}

\* \w+ has taken k characters after p; then . and (eth|ETH); on failure \w+ gives one back
RECURSIVE ENSBacktrack(_, _, _)
ENSBacktrack(s, p, k) ==
    IF k < 1 THEN 0
    ELSE IF /\ p + k + 4 <= Len(s)
            /\ DotMatches(s[p + k + 1])
            /\ SubSeq(s, p + k + 2, p + k + 4) \in ENSSuffixes
         THEN p + k + 4
         ELSE ENSBacktrack(s, p, k - 1)

\* ENSRegex = /([a-zA-Z0-9]\w+.(eth|ETH))/ tried at position p: the end of the match, 0 if none
ENSRegexAt(s, p) ==
    IF p <= Len(s) /\ IsAlnum(s[p])
    THEN ENSBacktrack(s, p, WordRunEnd(s, p + 1) - p)
    ELSE 0

RECURSIVE ENSScan(_, _)
ENSScan(s, p) ==
    IF p > Len(s) THEN NoMatch
    ELSE IF ENSRegexAt(s, p) # 0 THEN SubSeq(s, p, ENSRegexAt(s, p))
    ELSE ENSScan(s, p + 1)

\* cleanedText.match(ENSRegex)[0], or NoMatch
MatchENS(s) == ENSScan(s, 1)

(***************************************************************************)
(* Program constants and the bounds of the model                           *)
(***************************************************************************)
\* substring(0, 42)
AddressLength == 42

\* Math.floor(i / 100)
BatchSize == 100

\* the pages one conversation may have
MaxPages == 2

\* the addresses handed to outputAddresses in the writer's own specification
MaxAddresses == 250

\* runs of the program against the same output directory
MaxRuns == 2

\* the texts of the extraction specification are up to MaxFragments fragments
MaxFragments == 2

(***************************************************************************)
(* State                                                                   *)
(***************************************************************************)
VARIABLES
    pc,                 \* where scrape() is: Idle, Collecting, Extracting, Resolving, Writing, Done, Failed
    rpc,                \* this.rpc is set (an RPC provider was given)
    numTokens,          \* this.numTokens
    tweets,             \* this.tweets
    addresses,          \* this.addresses
    next,               \* the argument of the collectTweets call that is running
    requests,           \* the next parameter of every client.get made so far
    responses,          \* what the query service answered, in order
    convertedAddresses, \* convertENS's local list
    i,                  \* the loop index of convertENS
    inflight,           \* the names whose resolveName call has not returned
    resolverLog,        \* every resolveName call that returned: the name and the result
    dirExists,          \* ./output exists
    files,              \* ./output/batch-<n>.txt: n |-> the strings appended, in order
    files0,             \* the files as the first run found them
    run                 \* which run of the program this is

vars ==
    <<pc, rpc, numTokens, tweets, addresses, next, requests, responses,
      convertedAddresses, i, inflight, resolverLog, dirExists,
      files, files0, run>>

\* undefined, as the value of a pagination token
NoNext == "undefined"

\* the continuation token the service hands out with its n-th page
PageTokens == <<"t1", "t2", "t3", "t4", "t5">>

TokenAmounts == {5, 10}

HexUpper ==
    <<"0", "x", "A", "B", "C", "D", "E", "F", "0", "1", "2", "3", "4", "5",
      "6", "7", "8", "9", "A", "B", "C", "D", "E", "F", "0", "1", "2", "3",
      "4", "5", "6", "7", "8", "9", "A", "B", "C", "D", "E", "F", "0", "1">>

Tweet1 ==
    [id |-> "1",
     text |-> <<"s", "e", "n", "d", " ", "t", "o", " ">> \o HexUpper
              \o <<" ", "t", "h", "a", "n", "k", "s">>]

Tweet2 ==
    [id |-> "2",
     text |-> <<"m", "y", " ", "w", "a", "l", "l", "e", "t", " ", "i", "s", " ",
                "v", "i", "t", "a", "l", "i", "k", ".", "e", "t", "h">>]

Tweet3 ==
    [id |-> "3",
     text |-> <<"g", "m", "\r", "\n", "0", "x", "A", "b", "1", "2", " ", "o", "r",
                " ", "B", "o", "b", ".", "E", "T", "H">>]

\* the result pages the query service may return
PagePool == {<<>>, <<Tweet1>>, <<Tweet3, Tweet2>>}

\* a checksummed address, as the provider's resolveName returns it
ResolvedAddress ==
    <<"0", "x", "d", "8", "d", "A", "6", "B", "F", "2", "6", "9", "6", "4",
      "a", "F", "9", "D", "7", "e", "E", "d", "9", "e", "0", "3", "E", "5",
      "3", "4", "1", "5", "D", "3", "7", "a", "A", "9", "6", "0", "4", "5">>

(***************************************************************************)
(* The query service: client.get calls back with (error, tweets, response) *)
(* A success carries a page {results, next?}.  With an error the data may  *)
(* be undefined, an object without results, or an object with results.     *)
(***************************************************************************)
Page(err, results, token) ==
    [error |-> err, body |-> "object", hasResults |-> TRUE,
     results |-> results, next |-> token]

NoData ==
    [error |-> TRUE, body |-> "undefined", hasResults |-> FALSE,
     results |-> <<>>, next |-> NoNext]

NoResults ==
    [error |-> TRUE, body |-> "object", hasResults |-> FALSE,
     results |-> <<>>, next |-> NoNext]

\* the answers to the call after n earlier ones; the conversation has at most MaxPages pages
ServiceResponses(n) ==
    LET tokens == IF n + 1 < MaxPages THEN {PageTokens[n + 1], NoNext} ELSE {NoNext}
    IN  {Page(e, r, t) : e \in BOOLEAN, r \in PagePool, t \in tokens}
            \cup {NoData, NoResults}

\* rpc.resolveName: an address, the empty string, null, or a rejected promise
ResolveResults ==
    {[kind |-> "value", value |-> ResolvedAddress],
     [kind |-> "value", value |-> <<>>],
     [kind |-> "null", value |-> <<>>],
     [kind |-> "reject", value |-> <<>>]}

\* if (parsed)
Truthy(parsed) == parsed.kind = "value" /\ parsed.value # <<>>

(***************************************************************************)
(* The construction of a Scraper and the start of scrape()                 *)
(***************************************************************************)
\* an output directory without files
NoFiles == [n \in {} |-> <<>>]

Constructed ==
    /\ pc = "Idle"
    /\ tweets = <<>>
    /\ addresses = <<>>
    /\ next = NoNext
    /\ requests = <<>>
    /\ responses = <<>>
    /\ convertedAddresses = <<>>
    /\ i = 0
    /\ inflight = {}
    /\ resolverLog = <<>>
    /\ run = 1

\* a first run: ./output is not there yet
Init ==
    /\ Constructed
    /\ rpc \in BOOLEAN
    /\ numTokens \in TokenAmounts
    /\ dirExists = FALSE
    /\ files = NoFiles
    /\ files0 = NoFiles

\* scrape() calls collectTweets() with no argument
Scrape ==
    /\ pc = "Idle"
    /\ pc' = "Collecting"
    /\ next' = NoNext
    /\ UNCHANGED <<rpc, numTokens, tweets, addresses, requests, responses,
                   convertedAddresses, i, inflight, resolverLog, dirExists,
                   files, files0, run>>

(***************************************************************************)
(* collectTweets: one call of it, up to its recursive call                 *)
(***************************************************************************)
\* a collector that puts each page before the earlier ones
PushAllInFront(list, results) == results \o list

\* this.tweets.push(...tweets.results)
PushAll(list, results) == list \o results

\* tweets.results is read of undefined, or is itself undefined: a TypeError
ThrowsTypeError(resp) == resp.body = "undefined" \/ ~resp.hasResults

\* if (tweets.next)
HasNext(resp) == resp.next # NoNext

\* the argument of the recursive call
NextArgument(resp) == resp.next

CollectTweets ==
    /\ pc = "Collecting"
    /\ \E resp \in ServiceResponses(Len(responses)) :
        /\ requests' = Append(requests, next)
        /\ responses' = Append(responses, resp)
        /\ IF ThrowsTypeError(resp)
           THEN /\ pc' = "Failed"
                /\ UNCHANGED <<tweets, next>>
           ELSE /\ tweets' = PushAll(tweets, resp.results)
                /\ IF HasNext(resp)
                   THEN /\ next' = NextArgument(resp)
                        /\ pc' = "Collecting"
                   ELSE /\ pc' = "Extracting"
                        /\ UNCHANGED next
    /\ UNCHANGED <<rpc, numTokens, addresses, convertedAddresses, i, inflight,
                   resolverLog, dirExists, files, files0, run>>

(***************************************************************************)
(* cleanTweetsForAddresses                                                 *)
(***************************************************************************)
\* a cleaning that keeps the whole match
AddrUntruncated(found) == found

\* foundArrs[0].startsWith("0x") ? foundArrs[0].substring(0, 42) : foundArrs[0]
Addr(found) ==
    IF StartsWith(found, <<"0", "x">>) THEN Substring0(found, AddressLength) ELSE found

\* what one tweet pushes: for (const foundArrs of [foundAddress, foundENS])
TweetAddresses(text) ==
    LET cleanedText == RemoveLineBreaks(text)
        foundAddress == MatchAddress(cleanedText)
        foundENS == MatchENS(cleanedText)
    IN  (IF foundAddress # NoMatch THEN <<Addr(foundAddress)>> ELSE <<>>)
            \o (IF foundENS # NoMatch THEN <<Addr(foundENS)>> ELSE <<>>)

\* for (const tweet of this.tweets)
RECURSIVE CleanedAddresses(_)
CleanedAddresses(list) ==
    IF list = <<>> THEN <<>>
    ELSE TweetAddresses(Head(list).text) \o CleanedAddresses(Tail(list))

\* a scrape() that converts whether or not a provider was given
AlwaysResolving(hasRpc) == "Resolving"

\* if (this.rpc) in scrape()
StageAfterCleaning(hasRpc) == IF hasRpc THEN "Resolving" ELSE "Writing"

CleanTweetsForAddresses ==
    /\ pc = "Extracting"
    /\ addresses' = addresses \o CleanedAddresses(tweets)
    /\ pc' = StageAfterCleaning(rpc)
    /\ i' = 0
    /\ convertedAddresses' = <<>>
    /\ UNCHANGED <<rpc, numTokens, tweets, next, requests, responses, inflight,
                   resolverLog, dirExists, files, files0, run>>

(***************************************************************************)
(* convertENS                                                              *)
(***************************************************************************)
DotEth == <<".", "e", "t", "h">>

\* const address = this.addresses[i].toLowerCase()
LoweredAddress(k) == ToLowerCase(addresses[k + 1])

\* if (address.includes(".eth"))
IsENSName(address) == Includes(address, DotEth)

\* else: convertedAddresses.push(address)
ConvertENSPush ==
    /\ pc = "Resolving"
    /\ inflight = {}
    /\ i < Len(addresses)
    /\ ~IsENSName(LoweredAddress(i))
    /\ convertedAddresses' = Append(convertedAddresses, LoweredAddress(i))
    /\ i' = i + 1
    /\ UNCHANGED <<pc, rpc, numTokens, tweets, addresses, next, requests, responses,
                   inflight, resolverLog, dirExists, files, files0, run>>

\* await this.rpc?.resolveName(address): the call is made
ConvertENSResolve ==
    /\ pc = "Resolving"
    /\ inflight = {}
    /\ i < Len(addresses)
    /\ IsENSName(LoweredAddress(i))
    /\ inflight' = inflight \cup {LoweredAddress(i)}
    /\ UNCHANGED <<pc, rpc, numTokens, tweets, addresses, next, requests, responses,
                   convertedAddresses, i, resolverLog, dirExists,
                   files, files0, run>>

\* a convertENS that pushes whatever resolveName returned
ResolvedUnchecked(list, parsed) == Append(list, parsed.value)

\* what convertENS pushes for a resolved name: if (parsed) convertedAddresses.push(parsed)
Resolved(list, parsed) == IF Truthy(parsed) THEN Append(list, parsed.value) ELSE list

\* the call returns (or rejects, and convertENS and scrape reject with it)
ResolveNameReturns ==
    /\ pc = "Resolving"
    /\ inflight # {}
    /\ \E name \in inflight, parsed \in ResolveResults :
        /\ inflight' = inflight \ {name}
        /\ resolverLog' = Append(resolverLog, [name |-> name, result |-> parsed])
        /\ IF parsed.kind = "reject"
           THEN /\ pc' = "Failed"
                /\ UNCHANGED <<convertedAddresses, i>>
           ELSE /\ convertedAddresses' = Resolved(convertedAddresses, parsed)
                /\ i' = i + 1
                /\ pc' = pc
    /\ UNCHANGED <<rpc, numTokens, tweets, addresses, next, requests, responses,
                   dirExists, files, files0, run>>

\* this.addresses = convertedAddresses, and scrape() goes on to outputAddresses
ConvertENSReturn ==
    /\ pc = "Resolving"
    /\ inflight = {}
    /\ i = Len(addresses)
    /\ addresses' = convertedAddresses
    /\ pc' = "Writing"
    /\ UNCHANGED <<rpc, numTokens, tweets, next, requests, responses,
                   convertedAddresses, i, inflight, resolverLog, dirExists,
                   files, files0, run>>

(***************************************************************************)
(* outputAddresses                                                         *)
(***************************************************************************)
\* `${this.addresses[i]}, ${this.numTokens}\n`
Line(address, amount) == address \o <<",", " ">> \o NumberToString(amount) \o <<"\n">>

\* a numbering of the files from 1
FileNumberFromOne(k) == (k \div BatchSize) + 1

\* Math.floor(i / 100)
FileNumber(k) == k \div BatchSize

\* a writer that replaces what the file holds
WriteFileSync(old, data) == data

\* fs.appendFileSync on a file that holds old
AppendFileSync(old, data) == old \o data

\* for (let i = 0; i < this.addresses.length; i++): the turns 0 .. stop-1 of the loop.
\* Turn k appends its line to file FileNumber(k), which is created when it does not
\* exist; a file ends up with the lines of its turns, in the order of the turns.
AppendLines(fs, list, amount, stop) ==
    LET turns == [k \in 1..stop |-> k - 1]
        lines(n) ==
            LET mine == SelectSeq(turns, LAMBDA k : FileNumber(k) = n)
            IN  [j \in 1..Len(mine) |-> Line(list[mine[j] + 1], amount)]
    IN  [n \in DOMAIN fs \cup {FileNumber(k) : k \in 0..(stop - 1)} |->
            AppendFileSync(IF n \in DOMAIN fs THEN fs[n] ELSE <<>>, lines(n))]

\* outputAddresses is synchronous: the directory is made when absent, every line is appended
OutputAddresses ==
    /\ pc = "Writing"
    /\ dirExists' = TRUE
    /\ files' = AppendLines(files, addresses, numTokens, Len(addresses))
    /\ pc' = "Done"
    /\ UNCHANGED <<rpc, numTokens, tweets, addresses, next, requests, responses,
                   convertedAddresses, i, inflight, resolverLog, files0, run>>

\* mkdirSync throws, or the appendFileSync of address k does: what was written stays
OutputAddressesThrows ==
    /\ pc = "Writing"
    /\ \/ /\ ~dirExists
          /\ UNCHANGED <<dirExists, files>>
       \/ \E k \in 0..(Len(addresses) - 1) :
            /\ dirExists' = TRUE
            /\ files' = AppendLines(files, addresses, numTokens, k)
    /\ pc' = "Failed"
    /\ UNCHANGED <<rpc, numTokens, tweets, addresses, next, requests, responses,
                   convertedAddresses, i, inflight, resolverLog, files0, run>>

Next ==
    \/ Scrape
    \/ CollectTweets
    \/ CleanTweetsForAddresses
    \/ ConvertENSPush
    \/ ConvertENSResolve
    \/ ResolveNameReturns
    \/ ConvertENSReturn
    \/ OutputAddresses
    \/ OutputAddressesThrows

Spec == Init /\ [][Next]_vars

(***************************************************************************)
(* cleanTweetsForAddresses on its own: one collected tweet whose text is   *)
(* put together from up to MaxFragments fragments                          *)
(***************************************************************************)
Fragments ==
    {HexUpper,
     <<"0", "x", "1", "g", " ">>,
     <<"a", "b", ".", "e", "t", "h">>,
     <<"A", "B", ".", "E", "T", "H">>,
     <<".", "e", "t", "h">>,
     <<" ", "e", "t", "h">>,
     <<".", "E", "t", "h">>,
     <<"\r", "\n">>,
     <<"a", "b">>}

RECURSIVE TextsOf(_)
TextsOf(n) ==
    IF n = 0 THEN {<<>>}
    ELSE TextsOf(n - 1) \cup {t \o f : t \in TextsOf(n - 1), f \in Fragments}

InitExtract ==
    /\ \E text \in TextsOf(MaxFragments) : tweets = <<[id |-> "1", text |-> text]>>
    /\ pc = "Extracting"
    /\ requests = <<NoNext>>
    /\ responses = <<Page(FALSE, tweets, NoNext)>>
    /\ addresses = <<>>
    /\ next = NoNext
    /\ convertedAddresses = <<>>
    /\ i = 0
    /\ inflight = {}
    /\ resolverLog = <<>>
    /\ run = 1
    /\ rpc \in BOOLEAN
    /\ numTokens \in TokenAmounts
    /\ dirExists = FALSE
    /\ files = NoFiles
    /\ files0 = NoFiles

NextExtract == CleanTweetsForAddresses

SpecExtract == InitExtract /\ [][NextExtract]_vars

(***************************************************************************)
(* outputAddresses on its own: a resolved list of up to MaxAddresses       *)
(* addresses, a directory that may hold files already, and the program run *)
(* again on the same list.  The writer reads addresses, numTokens and the  *)
(* directory only; the variables of the earlier stages stay empty.         *)
(***************************************************************************)
\* the k-th address of the list: no two alike
NumberedAddress(k) == <<"0", "x">> \o NumberToString(k)

OldLine == <<"o", "l", "d", ",", " ", "1", "\n">>

\* what ./output holds before the first run: nothing, or files of earlier runs
OldFiles ==
    {NoFiles,
     [n \in {0} |-> <<OldLine>>],
     [n \in {0, 2} |-> IF n = 0 THEN <<OldLine, OldLine>> ELSE <<OldLine>>]}

InitWrite ==
    /\ pc = "Writing"
    /\ \E len \in 0..MaxAddresses :
        addresses = [k \in 1..len |-> NumberedAddress(k - 1)]
    /\ numTokens \in TokenAmounts
    /\ \/ dirExists = FALSE /\ files = NoFiles
       \/ dirExists = TRUE /\ files \in OldFiles
    /\ files0 = files
    /\ run = 1
    /\ rpc = TRUE
    /\ tweets = <<>>
    /\ next = NoNext
    /\ requests = <<>>
    /\ responses = <<>>
    /\ convertedAddresses = <<>>
    /\ i = 0
    /\ inflight = {}
    /\ resolverLog = <<>>

\* the program is started again with the same input: a new Scraper that reaches
\* outputAddresses with the same list, the directory being as the last run left it
Rerun ==
    /\ pc = "Done"
    /\ run < MaxRuns
    /\ run' = run + 1
    /\ pc' = "Writing"
    /\ UNCHANGED <<rpc, numTokens, tweets, addresses, next, requests, responses,
                   convertedAddresses, i, inflight, resolverLog, dirExists,
                   files, files0>>

NextWrite ==
    \/ OutputAddresses
    \/ Rerun

SpecWrite == InitWrite /\ [][NextWrite]_vars

(***************************************************************************)
(* Collection                                                              *)
(***************************************************************************)
Stages == {"Idle", "Collecting", "Extracting", "Resolving", "Writing", "Done", "Failed"}

AllPagesSucceeded == \A k \in 1..Len(responses) : ~responses[k].error

SomeCallFailed == \E k \in 1..Len(responses) : responses[k].error

\* the number of results of the first n pages
RECURSIVE ResultCount(_)
ResultCount(n) == IF n = 0 THEN 0 ELSE ResultCount(n - 1) + Len(responses[n].results)

\* C1: collectTweets starts with no continuation token, sends with every later
\* query the token of the page before, and stops at the first page without one;
\* as long as every page was a success, this.tweets is the pages' results one
\* page after the other, each page in its own order, so its length is the sum
\* of the pages' result counts.
C1_CollectedIsConcatenation ==
    AllPagesSucceeded =>
        /\ Len(requests) = Len(responses)
        /\ \A k \in 1..Len(requests) :
            requests[k] = IF k = 1 THEN NoNext ELSE responses[k - 1].next
        /\ \A k \in 1..(Len(responses) - 1) : responses[k].next # NoNext
        /\ pc = "Idle" => responses = <<>>
        /\ pc = "Collecting" =>
            responses = <<>> \/ responses[Len(responses)].next # NoNext
        /\ pc \notin {"Idle", "Collecting"} =>
            responses # <<>> /\ responses[Len(responses)].next = NoNext
        /\ Len(tweets) = ResultCount(Len(responses))
        /\ \A k \in 1..Len(responses) :
            \A j \in 1..Len(responses[k].results) :
                tweets[ResultCount(k - 1) + j] = responses[k].results[j]

\* two successful pages, the second the last, three tweets in all
C1_Witness ==
    /\ pc = "Extracting"
    /\ AllPagesSucceeded
    /\ Len(responses) = 2
    /\ responses[1].results = <<Tweet3, Tweet2>>
    /\ responses[2].results = <<Tweet1>>
    /\ requests = <<NoNext, PageTokens[1]>>
    /\ tweets = <<Tweet3, Tweet2, Tweet1>>

\* C2 (as the specification states it): once a call of the query service has
\* come back with an error the run has failed; it neither goes on collecting
\* nor reaches extraction, resolution or writing.
C2_FailedCallIsFatal == SomeCallFailed => pc = "Failed"

(***************************************************************************)
(* The run without a provider                                              *)
(***************************************************************************)
ExampleLineUpper == HexUpper \o <<",", " ", "5", "\n">>

ExampleLineLower == ToLowerCase(HexUpper) \o <<",", " ", "5", "\n">>

\* the lines a finished first run leaves in batch-0.txt, given what the writer was handed
WrittenLines(list) == [k \in 1..Len(list) |-> Line(list[k], numTokens)]

\* C3 (as the specification states it): without a provider the Resolving stage
\* is skipped and the writer is handed the extracted candidates lowercased, so
\* that 0xABCDEF0123456789ABCDEF0123456789ABCDEF01 with amount 5 is written as
\* "0xabcdef0123456789abcdef0123456789abcdef01, 5".
C3_PassThroughLowercased ==
    ~rpc =>
        /\ pc # "Resolving"
        /\ resolverLog = <<>>
        /\ pc \in {"Writing", "Done"} =>
            /\ Len(addresses) = Len(CleanedAddresses(tweets))
            /\ \A k \in 1..Len(addresses) :
                addresses[k] = ToLowerCase(CleanedAddresses(tweets)[k])
        /\ (pc = "Done" /\ tweets = <<Tweet1>> /\ numTokens = 5) =>
            files = [n \in {0} |-> <<ExampleLineLower>>]

\* C3 (amended): without a provider the Resolving stage is skipped, no name is
\* resolved, and the writer is handed the extracted candidates as they were
\* extracted, case included: the example is written as
\* "0xABCDEF0123456789ABCDEF0123456789ABCDEF01, 5".
C3_PassThroughUnchanged ==
    ~rpc =>
        /\ pc # "Resolving"
        /\ resolverLog = <<>>
        /\ inflight = {}
        /\ pc \in {"Writing", "Done"} => addresses = CleanedAddresses(tweets)
        /\ pc = "Done" =>
            files = IF addresses = <<>> THEN NoFiles
                    ELSE [n \in {0} |-> WrittenLines(CleanedAddresses(tweets))]
        /\ (pc = "Done" /\ tweets = <<Tweet1>> /\ numTokens = 5) =>
            files = [n \in {0} |-> <<ExampleLineUpper>>]

\* the example: one tweet with the upper-case address, amount 5, no provider
C3_Witness ==
    /\ ~rpc
    /\ pc = "Done"
    /\ tweets = <<Tweet1>>
    /\ numTokens = 5
    /\ addresses = <<HexUpper>>
    /\ files = [n \in {0} |-> <<ExampleLineUpper>>]

(***************************************************************************)
(* Resolution                                                              *)
(***************************************************************************)
\* the k-th candidate is taken for a name
TakenForName(k) == Includes(ToLowerCase(addresses[k]), DotEth)

\* how many of the first k candidates are taken for names
NamesAmong(k) == Cardinality({j \in 1..k : TakenForName(j)})

\* what the resolver answered for the k-th candidate, a name
AnswerFor(k) == resolverLog[NamesAmong(k)].result

\* what the k-th candidate contributes to the output
Contribution(k) ==
    IF ~TakenForName(k) THEN <<ToLowerCase(addresses[k])>>
    ELSE IF AnswerFor(k).kind = "value" /\ Len(AnswerFor(k).value) > 0
         THEN <<AnswerFor(k).value>>
         ELSE <<>>

RECURSIVE Contributions(_)
Contributions(k) == IF k = 0 THEN <<>> ELSE Contributions(k - 1) \o Contribution(k)

ConvertedSoFar ==
    (rpc /\ pc = "Resolving") =>
        /\ i \in 0..Len(addresses)
        /\ Len(resolverLog) = NamesAmong(i)
        /\ \A k \in 1..i :
            TakenForName(k) => resolverLog[NamesAmong(k)].name = ToLowerCase(addresses[k])
        /\ inflight \subseteq {ToLowerCase(addresses[k]) : k \in {i + 1} \cap 1..Len(addresses)}
        /\ convertedAddresses = Contributions(i)
        /\ Len(convertedAddresses) <= i

ConvertedHandedOn == (rpc /\ pc \in {"Writing", "Done"}) => addresses = convertedAddresses

\* a resolveName call that returns, with an address or with nothing, is no error
NoErrorOnEmpty ==
    (/\ pc = "Resolving"
     /\ Len(resolverLog') = Len(resolverLog) + 1
     /\ resolverLog'[Len(resolverLog')].result.kind # "reject")
        => pc' = "Resolving" /\ i' = i + 1

\* the list this.addresses is set to is the local list, and only when the loop is over
OnlyWholeListReplaces ==
    (pc = "Resolving" /\ addresses' # addresses)
        => i = Len(addresses) /\ addresses' = convertedAddresses /\ pc' = "Writing"

\* C7: with a provider, convertENS goes through the candidates in order; a
\* candidate whose lowercased form has no ".eth" contributes that lowercased
\* form, one that has it is resolved under its lowercased form and contributes
\* the value resolveName returned when that is not empty and nothing (and no
\* error) when it is empty or null; the output is these contributions in
\* order, never longer than the input, and it is what this.addresses becomes.
C7_ConvertInOrder ==
    /\ [](ConvertedSoFar /\ ConvertedHandedOn)
    /\ [][NoErrorOnEmpty /\ OnlyWholeListReplaces]_vars

\* a loop that has ended on four candidates: two hex addresses lowercased, a
\* name whose resolution came back empty or null, a name that resolved
C7_Witness ==
    /\ rpc
    /\ pc = "Resolving"
    /\ i = Len(addresses)
    /\ addresses = <<HexUpper, <<"0", "x", "A", "b", "1", "2">>,
                     <<"B", "o", "b", ".", "E", "T", "H">>,
                     <<"v", "i", "t", "a", "l", "i", "k", ".", "e", "t", "h">>>>
    /\ ~Truthy(resolverLog[1].result)
    /\ resolverLog[1].name = <<"b", "o", "b", ".", "e", "t", "h">>
    /\ convertedAddresses =
        <<ToLowerCase(HexUpper), <<"0", "x", "a", "b", "1", "2">>, ResolvedAddress>>

(***************************************************************************)
(* The order of the stages                                                 *)
(***************************************************************************)
StageStep ==
    \/ pc' = pc
    \/ pc = "Idle" /\ pc' = "Collecting"
    \/ pc = "Collecting" /\ pc' \in {"Extracting", "Failed"}
    \/ pc = "Extracting" /\ pc' = (IF rpc THEN "Resolving" ELSE "Writing")
    \/ pc = "Resolving" /\ pc' \in {"Writing", "Failed"}
    \/ pc = "Writing" /\ pc' \in {"Done", "Failed"}

StageFacts ==
    /\ pc \in Stages
    /\ pc = "Resolving" => rpc
    /\ pc \in {"Extracting", "Resolving", "Writing", "Done"} =>
        responses # <<>> /\ responses[Len(responses)].next = NoNext
    /\ pc \in {"Idle", "Collecting", "Extracting"} => addresses = <<>>
    /\ Cardinality(inflight) <= 1
    /\ inflight # {} => pc = "Resolving"
    /\ (rpc /\ pc \in {"Writing", "Done"}) =>
        i = Len(CleanedAddresses(tweets)) /\ addresses = convertedAddresses
    /\ pc # "Done" => \A n \in DOMAIN files : Len(files[n]) < Len(addresses)
    /\ pc = "Done" =>
        files = IF addresses = <<>> THEN NoFiles
                ELSE [n \in {0} |-> WrittenLines(addresses)]

\* the stages follow one another as the specification orders them, whatever the
\* query service answers
StagesInOrder == [][StageStep]_vars /\ []StageFacts

\* C9 (as the specification states it): a run goes Idle, Collecting,
\* Extracting, Resolving (if and only if a provider was given), Writing, Done;
\* extraction starts after the last page, the writer is called once, with the
\* whole resolved list, no two resolutions are in flight, Done comes after all
\* lines are written; and a run in which a stage failed, a call of the query
\* service included, never reaches Done.
C9_StagesAndFailures ==
    /\ [][StageStep]_vars
    /\ []StageFacts
    /\ [](SomeCallFailed => pc # "Done")

(***************************************************************************)
(* Extraction, read off the one tweet of SpecExtract                       *)
(***************************************************************************)
TheText == tweets[1].text

Cleaned == RemoveLineBreaks(TheText)

HexDigits ==
    Range(DecimalDigits) \cup {"a", "b", "c", "d", "e", "f", "A", "B", "C", "D", "E", "F"}

\* a well-formed hex identifier starts at p: 0x and 40 hex digits
IdentifierAt(s, p) ==
    /\ p + 41 <= Len(s)
    /\ s[p] = "0"
    /\ s[p + 1] = "x"
    /\ \A j \in (p + 2)..(p + 41) : s[j] \in HexDigits

\* the hex pattern can match at p: 0x, an alphanumeric, a word character
HexPatternAt(s, p) ==
    /\ p + 3 <= Len(s)
    /\ s[p] = "0"
    /\ s[p + 1] = "x"
    /\ IsAlnum(s[p + 2])
    /\ IsWord(s[p + 3])

HexStarts == {p \in 1..Len(Cleaned) : HexPatternAt(Cleaned, p)}

\* where the hex pattern first matches
FirstHexStart == CHOOSE p \in HexStarts : \A q \in HexStarts : p <= q

\* where that match ends: the word characters go on up to there and no further
FirstHexEnd ==
    CHOOSE e \in (FirstHexStart + 3)..Len(Cleaned) :
        /\ e = Len(Cleaned) \/ ~IsWord(Cleaned[e + 1])
        /\ \A j \in (FirstHexStart + 3)..e : IsWord(Cleaned[j])

FirstHexLength == FirstHexEnd - FirstHexStart + 1

Extracted == pc # "Extracting"

\* C5 (as the specification states it): a message whose text holds a
\* well-formed hex identifier yields a hex candidate of exactly 42 characters
\* that begins with 0x: the 42 characters of the cleaned text from where the
\* hex pattern first matches, whatever the length of the match.
C5_HexCandidateIs42 ==
    (Extracted /\ \E p \in 1..Len(TheText) : IdentifierAt(TheText, p)) =>
        /\ addresses # <<>>
        /\ Len(addresses[1]) = AddressLength
        /\ StartsWith(addresses[1], <<"0", "x">>)
        /\ addresses[1] = SubSeq(Cleaned, FirstHexStart, FirstHexStart + AddressLength - 1)

\* C5 (amended): a message whose cleaned text the hex pattern matches yields,
\* first, a hex candidate that begins with 0x and is the first min(42, n)
\* characters of the pattern's first match, n >= 4 being the length of that
\* match (0x, an alphanumeric, and the word characters that follow); it is 42
\* characters long exactly when the first match has 42 or more, and it is the
\* identifier itself when the first match starts at a well-formed identifier.
C5_HexCandidateIsMatchPrefix ==
    (Extracted /\ HexStarts # {}) =>
        /\ addresses # <<>>
        /\ StartsWith(addresses[1], <<"0", "x">>)
        /\ FirstHexLength >= 4
        /\ Len(addresses[1]) = Min(AddressLength, FirstHexLength)
        /\ addresses[1] = SubSeq(Cleaned, FirstHexStart, FirstHexStart + Len(addresses[1]) - 1)
        /\ Len(addresses[1]) = AddressLength <=> FirstHexLength >= AddressLength
        /\ IdentifierAt(Cleaned, FirstHexStart) =>
            /\ Len(addresses[1]) = AddressLength
            /\ IdentifierAt(addresses[1], 1)

\* an identifier with two more word characters after it: the match has 44
\* characters, the candidate its first 42
C5_Witness ==
    /\ Extracted
    /\ TheText = HexUpper \o <<"a", "b">>
    /\ FirstHexLength = 44
    /\ addresses[1] = HexUpper

\* the name candidate comes after the hex candidate when there is one
NameIndex == IF HexStarts # {} THEN 2 ELSE 1

HasNameCandidate == Len(addresses) >= NameIndex

NameCandidate == addresses[NameIndex]

\* an alphanumeric run, a dot, eth or ETH
NameShape(c) ==
    /\ Len(c) >= 5
    /\ c[Len(c) - 3] = "."
    /\ SubSeq(c, Len(c) - 2, Len(c)) \in ENSSuffixes
    /\ \A j \in 1..(Len(c) - 4) : IsAlnum(c[j])

\* the names a text holds, each with the whole of its alphanumeric run
NamesIn(s) ==
    {SubSeq(s, p, d + 3) :
        <<p, d>> \in {<<p, d>> \in (1..Len(s)) \X (1..Len(s)) :
            /\ p < d
            /\ d + 3 <= Len(s)
            /\ s[d] = "."
            /\ SubSeq(s, d + 1, d + 3) \in ENSSuffixes
            /\ \A j \in p..(d - 1) : IsAlnum(s[j])
            /\ p = 1 \/ ~IsAlnum(s[p - 1])}}

\* C6 (as the specification states it): a message whose text holds a name, an
\* alphanumeric run, a dot and eth or ETH, yields that name as its name
\* candidate, unmodified; and every name candidate is such a name, with a dot
\* right before the suffix.
C6_NameCandidateIsDottedName ==
    Extracted =>
        /\ NamesIn(Cleaned) # {} => HasNameCandidate /\ NameCandidate \in NamesIn(Cleaned)
        /\ HasNameCandidate => NameShape(NameCandidate)

\* C10 (as the specification states it): a message yields at most one hex
\* candidate and at most one name candidate, the hex one first; the hex
\* candidate begins with 0x and convertENS does not take it for a name; the
\* name candidate is the name pattern's match, not cut to 42 characters, and
\* convertENS takes it for a name.
C10_CandidateKinds ==
    Extracted =>
        /\ Len(addresses) = (IF HexStarts # {} THEN 1 ELSE 0)
                                + (IF MatchENS(Cleaned) # NoMatch THEN 1 ELSE 0)
        /\ HexStarts # {} =>
            /\ StartsWith(addresses[1], <<"0", "x">>)
            /\ ~Includes(ToLowerCase(addresses[1]), DotEth)
        /\ HasNameCandidate =>
            /\ NameCandidate = MatchENS(Cleaned)
            /\ Includes(ToLowerCase(NameCandidate), DotEth)

(***************************************************************************)
(* The batch files                                                         *)
(***************************************************************************)
\* ceil(L / 100)
BatchCount == (Len(addresses) + BatchSize - 1) \div BatchSize

\* the lines of the addresses at positions [100n, min(100n + 100, L)), in order
BatchLines(n) ==
    [j \in 1..(Min(BatchSize * n + BatchSize, Len(addresses)) - BatchSize * n) |->
        Line(addresses[BatchSize * n + j], numTokens)]

\* C4: starting from an empty output directory, outputAddresses leaves exactly
\* ceil(L/100) files, batch-0 to batch-(ceil(L/100)-1), none of them empty, and
\* batch-n holds one line per address at the positions [100n, min(100n+100, L)),
\* in order, and nothing else; 250 addresses give files of 100, 100 and 50 lines.
C4_BatchesOfHundred ==
    (pc = "Done" /\ run = 1 /\ files0 = NoFiles) =>
        /\ DOMAIN files = 0..(BatchCount - 1)
        /\ \A n \in DOMAIN files : files[n] # <<>> /\ files[n] = BatchLines(n)
        /\ \A k \in 1..Len(addresses) :
            files[(k - 1) \div BatchSize][((k - 1) % BatchSize) + 1]
                = addresses[k] \o <<",", " ">> \o NumberToString(numTokens) \o <<"\n">>
        /\ Len(addresses) = 250 =>
            /\ DOMAIN files = {0, 1, 2}
            /\ <<Len(files[0]), Len(files[1]), Len(files[2])>> = <<100, 100, 50>>

\* 250 addresses with amount 10, written into an empty directory
C4_Witness ==
    /\ pc = "Done"
    /\ run = 1
    /\ files0 = NoFiles
    /\ numTokens = 10
    /\ Len(addresses) = 250
    /\ DOMAIN files = {0, 1, 2}
    /\ Len(files[2]) = 50
    /\ files[2][50] = <<"0", "x", "2", "4", "9", ",", " ", "1", "0", "\n">>

\* what batch-n held before the first run
OldLines(n) == IF n \in DOMAIN files0 THEN files0[n] ELSE <<>>

RECURSIVE Repeated(_, _)
Repeated(lines, times) == IF times = 0 THEN <<>> ELSE Repeated(lines, times - 1) \o lines

\* after each run every file holds what it held before the first run, then its
\* batch's lines once per run
AccumulatedRuns ==
    pc = "Done" =>
        /\ dirExists
        /\ DOMAIN files = DOMAIN files0 \cup 0..(BatchCount - 1)
        /\ \A n \in DOMAIN files :
            files[n] = OldLines(n) \o Repeated(IF n < BatchCount THEN BatchLines(n) ELSE <<>>, run)

\* no step removes a file, or removes or changes a line a file holds
KeepsLines ==
    \A n \in DOMAIN files :
        /\ n \in DOMAIN files'
        /\ Len(files'[n]) >= Len(files[n])
        /\ SubSeq(files'[n], 1, Len(files[n])) = files[n]

\* C8: outputAddresses only appends, and an output directory that exists is no
\* error: every line a batch file holds before a run is still there after it,
\* unchanged and at the same position, and a second run on the same list
\* leaves every batch file with its batch's lines twice, the first run's and
\* then the second's.
C8_AppendOnly == []AccumulatedRuns /\ [][KeepsLines]_vars

\* a second run on 150 addresses in a directory that held batch-0 and batch-2
C8_Witness ==
    /\ pc = "Done"
    /\ run = 2
    /\ Len(addresses) = 150
    /\ DOMAIN files0 = {0, 2}
    /\ files[0] = <<OldLine, OldLine>> \o BatchLines(0) \o BatchLines(0)
    /\ files[1] = BatchLines(1) \o BatchLines(1)
    /\ files[2] = <<OldLine>>

====
